---- MODULE Spec2Model ----
(***************************************************************************)
(* A model of lokiunimore: the Flask routes that link a Google account to  *)
(* a Matrix user (web/__init__.py over the tables of sql/__init__.py) and  *)
(* the ExtendedClient of matrix/extensions.py.                             *)
(***************************************************************************)
EXTENDS Integers, Sequences, FiniteSets, TLC

VARIABLES
    accounts,       \* table "accounts": the rows, by their primary key email
    matrix_users,   \* table "matrix_users": the rows, by their primary key id
    session,        \* the browser's flask.session
    oauth_states,   \* history: OAuth flows begun by /matrix/<token>/link and not yet authorized
    last,           \* history: the last request served and its response
    rooms,          \* ExtendedClient.rooms: the rooms the client knows, in iteration order
    c_op,           \* the ExtendedClient method being awaited, or "idle"
    c_pc,           \* where that method is suspended
    c_args,         \* its arguments
    requests,       \* history: the requests the method sent to the homeserver
    replies,        \* history: the homeserver's answers to them
    h_current,      \* room_hierarchy: local current
    h_rooms,        \* room_hierarchy: local rooms
    outcome,        \* how the method ended: it returned a value or raised
    store,          \* the text of state.json in the store path, or NoFile
    next_batch,     \* ExtendedClient.next_batch: the sync cursor, or None
    sf_pc,          \* sync_forever: "idle", "syncing" (awaiting the underlying sync) or "done"
    run,            \* the number of the current run of sync_forever
    dump_task,      \* per run: where the task of _dump_state_regularly stands
    cancelling,     \* per run: dump_task.cancel() was called and not yet delivered
    writes,         \* history, per run: the periodic writes of state.json by the task
    created,        \* history, per run: the dump tasks created
    ended           \* history: how the last run ended, and next_batch at that moment

webVars == <<accounts, matrix_users, session, oauth_states, last>>
clientVars == <<rooms, c_op, c_pc, c_args, requests, replies, h_current, h_rooms, outcome>>

syncVars == <<store, next_batch, sf_pc, run, dump_task, cancelling, writes, created, ended>>

vars == <<webVars, clientVars, syncVars>>

None == "None"
\* SQL NULL in the text column matrix_users.account_email
NULL == <<>>

(***************************************************************************)
(* Texts are sequences of characters, so that re.match is computed.        *)
(***************************************************************************)
At == <<"@">>
StudentDomain == <<"s","t","u","d","e","n","t","i",".","u","n","i","m","o","r","e",".","i","t">>
Gmail == <<"g","m","a","i","l",".","c","o","m">>

EmailA == <<"a">> \o At \o StudentDomain
EmailB == <<"b">> \o At \o StudentDomain
EmailGmail == <<"a">> \o At \o Gmail
EmailNoLocal == At \o StudentDomain
EmailSuffix == <<"a">> \o At \o StudentDomain \o <<".","x","y">>
EmailNoDot == <<"a">> \o At \o <<"s","t","u","d","e","n","t","i","x","u","n","i","m","o","r","e",".","i","t">>

\* the emails Google may report
Emails == {EmailA, EmailB, EmailGmail, EmailNoLocal, EmailSuffix, EmailNoDot}

\* (given_name, family_name) pairs Google may report
Names == {<<"Ann", "Rossi">>, <<"Bob", "Bianchi">>}

UserIds == {"@u1", "@u2"}
Tokens == {"t1", "t2"}
TokenOf == [u \in UserIds |-> IF u = "@u1" THEN "t1" ELSE "t2"]

\* the state parameters of the OAuth flows a session can hold at once
OAuthStates == {"s1", "s2"}

\* re.match(r"(.+)@studenti[.]unimore[.]it", email): anchored at the start only;
\* "(.+)" takes one or more characters other than a newline, the rest is literal.
EmailPattern == At \o StudentDomain

re_match(email) ==
    \E i \in 1..Len(email) :
        /\ \A k \in 1..i : email[k] # "\n"
        /\ i + Len(EmailPattern) <= Len(email)
        /\ SubSeq(email, i + 1, i + Len(EmailPattern)) = EmailPattern

\* sql.Account(email=..., first_name=..., last_name=...)
Account(name) == [first_name |-> name[1], last_name |-> name[2]]

\* sql.MatrixUser: id is the key, token is set when the row is created
MatrixUser(id, account_email) == [token |-> TokenOf[id], account_email |-> account_email]

\* db.session.merge(sql.Account(...)): insert, or overwrite the row with that key
merge(rows, email, name) == (email :> Account(name)) @@ rows

\* db.session.query(sql.MatrixUser).filter_by(token=token).first(): a row or None
first_any_token(rows, token) ==
    IF DOMAIN rows # {}
    THEN CHOOSE u \in DOMAIN rows : TRUE
    ELSE None

first(rows, token) ==
    IF \E u \in DOMAIN rows : rows[u].token = token
    THEN CHOOSE u \in DOMAIN rows : rows[u].token = token
    ELSE None

Response(op, status, page) ==
    [op |-> op, status |-> status, page |-> page, token |-> None, state |-> None,
     oauth |-> None, verified |-> FALSE, email |-> <<>>, name |-> <<>>]

InitWeb ==
    /\ accounts = <<>>
    /\ \E present \in SUBSET UserIds :
        matrix_users = [u \in present |-> MatrixUser(u, NULL)]
    /\ session = [matrix_token |-> None]
    /\ oauth_states = [s \in OAuthStates |-> None]
    /\ last = Response("none", 0, None)

\* the tables and the session when no request is ever served
WebAtRest ==
    /\ accounts = <<>>
    /\ matrix_users = <<>>
    /\ session = [matrix_token |-> None]
    /\ oauth_states = [s \in OAuthStates |-> None]
    /\ last = Response("none", 0, None)

\* GET /matrix/<token>/link
page_matrix_link(token) ==
    IF first(matrix_users, token) = None
    THEN /\ last' = [Response("link", 404, None) EXCEPT !.token = token]
         /\ UNCHANGED <<accounts, matrix_users, session, oauth_states>>
    ELSE \E s \in OAuthStates :
         /\ oauth_states[s] = None
         /\ session' = [session EXCEPT !.matrix_token = token]
         /\ oauth_states' = [oauth_states EXCEPT ![s] = token]
         /\ last' = [Response("link", 302, "google") EXCEPT !.token = token, !.state = s]
         /\ UNCHANGED <<accounts, matrix_users>>

\* GET /authorize. oauth is what oauth.google.authorize_access_token() does; verified,
\* email and name are the claims of the id token. A view that returns without
\* db.session.commit() leaves the tables as they were: the session is removed, and
\* its transaction rolled back, when the request ends.
page_oauth_authorize(state, oauth, verified, email, name) ==
    LET req(r) == [r EXCEPT !.state = state, !.oauth = oauth]
        rej(r) == [r EXCEPT !.state = state, !.oauth = oauth, !.verified = verified,
                            !.email = email]
        tok(r) == [r EXCEPT !.state = state, !.oauth = oauth, !.verified = verified,
                            !.email = email, !.name = name]
        local_account == merge(accounts, email, name)
        matrix_token == session.matrix_token
        matrix_user == first(matrix_users, matrix_token)
    IN
    IF oauth = "BadRequestKeyError"
    THEN /\ last' = req(Response("authorize", 200, "error.html"))
         /\ UNCHANGED <<accounts, matrix_users, session, oauth_states>>
    ELSE IF oauth = "OAuthError"
    THEN /\ last' = req(Response("authorize", 200, "error.html"))
         /\ UNCHANGED <<accounts, matrix_users, session, oauth_states>>
    ELSE
    /\ oauth_states' = IF state = None THEN oauth_states ELSE [oauth_states EXCEPT ![state] = None]
    /\ UNCHANGED session
    /\ IF ~verified
       THEN /\ last' = [req(Response("authorize", 403, "error.html")) EXCEPT !.verified = verified]
            /\ UNCHANGED <<accounts, matrix_users>>
       ELSE IF ~re_match(email)
       THEN /\ last' = rej(Response("authorize", 403, "error.html"))
            /\ UNCHANGED <<accounts, matrix_users>>
       ELSE IF matrix_token # None
       THEN IF matrix_user = None
            THEN /\ last' = tok(Response("authorize", 404, None))
                 /\ UNCHANGED <<accounts, matrix_users>>
            ELSE /\ matrix_users' = [matrix_users EXCEPT ![matrix_user].account_email = email]
                 /\ accounts' = local_account
                 /\ last' = [tok(Response("authorize", 302, "matrix.html")) EXCEPT !.token = matrix_token]
       ELSE \* the view returns None: no commit, and Flask answers 500
            /\ last' = tok(Response("authorize", 500, None))
            /\ UNCHANGED <<accounts, matrix_users>>

Link ==
    /\ \E token \in Tokens : page_matrix_link(token)
    /\ UNCHANGED <<clientVars, syncVars>>

\* an /authorize that authorize_access_token() refuses
AuthorizeRefused ==
    \E state \in OAuthStates \cup {None}, oauth \in {"BadRequestKeyError", "OAuthError"} :
        /\ state # None => oauth_states[state] # None
        /\ page_oauth_authorize(state, oauth, FALSE, <<>>, <<>>)
        /\ UNCHANGED <<clientVars, syncVars>>

\* the callback of a flow the session began: Google redirects the browser back with
\* the state of that flow, and the exchange succeeds
AuthorizeCallback ==
    \E state \in OAuthStates, verified \in BOOLEAN, email \in Emails, name \in Names :
        /\ oauth_states[state] # None
        /\ page_oauth_authorize(state, "ok", verified, email, name)
        /\ UNCHANGED <<clientVars, syncVars>>

\* the view served for any session: the exchange succeeds whatever the session holds
AuthorizeAnySession ==
    \E verified \in BOOLEAN, email \in Emails, name \in Names :
        /\ page_oauth_authorize(None, "ok", verified, email, name)
        /\ UNCHANGED <<clientVars, syncVars>>

(***************************************************************************)
(* matrix/extensions.py: ExtendedClient.                                   *)
(***************************************************************************)

\* the most pages the homeserver splits a hierarchy into
MaxPages == 3
\* the most rooms the client knows
MaxRooms == 2

Loki == "@loki:server"
OtherUsers == {"@a:server", "@b:server"}

Raise(exc) == [kind |-> "raise", exc |-> exc, value |-> None]
Return(value) == [kind |-> "return", exc |-> None, value |-> value]
Pending == [kind |-> "none", exc |-> None, value |-> None]

NoArgs == [user_id |-> None, room_id |-> None, max_depth |-> 0, suggested_only |-> FALSE,
           shared_secret |-> None, username |-> None, displayname |-> None, password |-> None]

\* aiohttp.ClientResponse.raise_for_status(): raises for a status of 400 or more
raises_for_status(response) == response.status >= 400

\* the answers of the homeserver to a request sent with self.send
OkStatus == {200}
ErrorStatus == {403, 500}
ErrorBody == [errcode |-> "M_FORBIDDEN", error |-> "forbidden"]

\* nio builds the response object of an API call from the answer: response_class
\* for a success, the matching ErrorResponse subclass otherwise
ErrorClass(response_class) ==
    CASE response_class = "LoginResponse" -> "LoginError"
      [] response_class = "RoomCreateResponse" -> "RoomCreateError"
      [] OTHER -> "ErrorResponse"

ErrorResponses == {"ErrorResponse", "LoginError", "RoomCreateError"}

create_matrix_response(response_class, answer) ==
    IF answer.status < 400
    THEN [type |-> response_class, body |-> answer.json]
    ELSE [type |-> ErrorClass(response_class), body |-> answer.json]

\* nio.AsyncClient._send is a coroutine function: calling it yields a coroutine
\* object, which produces the response only when awaited
super_send(response_class, answer) ==
    [type |-> "coroutine", body |-> create_matrix_response(response_class, answer)]

\* isinstance(result, nio.responses.ErrorResponse)
isinstance_ErrorResponse(result) == result.type \in ErrorResponses

\* ExtendedClient._send: the value the call returns, or the exception it raises
_send(response_class, answer) ==
    LET result == super_send(response_class, answer)
    IN  IF isinstance_ErrorResponse(result)
        THEN Raise("RequestError")
        ELSE Return(result)

\* await x, for the value x a call returned
await(x) == IF x.type = "coroutine" THEN x.body ELSE x

\* a nio API method: return await self._send(response_class, ...)
api_call(response_class, answer) ==
    LET sent == _send(response_class, answer)
    IN  IF sent.kind = "raise" THEN sent ELSE Return(await(sent.value))

InitClient ==
    /\ c_op = "idle"
    /\ c_pc = "idle"
    /\ c_args = NoArgs
    /\ requests = <<>>
    /\ replies = <<>>
    /\ h_current = None
    /\ h_rooms = <<>>
    /\ outcome = Pending

Idle == c_op = "idle"

Finish(result) ==
    /\ outcome' = result
    /\ c_pc' = "done"

\* ---- register_with_shared_secret

RegisterPath == "/_synapse/admin/v1/register"

\* hmac.new(shared_secret, sha1) over nonce \0 username \0 password \0 notadmin
register_mac(shared_secret, nonce, username, password) ==
    <<"hmac-sha1", shared_secret, nonce, "\\0", username, "\\0", password, "\\0", "notadmin">>

RegisterStart ==
    /\ Idle
    /\ c_op' = "register_with_shared_secret"
    /\ c_args' = [NoArgs EXCEPT !.shared_secret = "secret", !.username = "loki",
                                !.displayname = "Loki", !.password = "pw"]
    /\ requests' = <<[method |-> "GET", path |-> RegisterPath, data |-> None]>>
    /\ c_pc' = "nonce"
    /\ UNCHANGED <<rooms, replies, h_current, h_rooms, outcome>>
    /\ UNCHANGED <<webVars, syncVars>>

RegisterNonce ==
    /\ c_op = "register_with_shared_secret" /\ c_pc = "nonce"
    /\ \E answer \in [status : OkStatus, json : [nonce : {"n1", "n2"}]]
                    \cup [status : ErrorStatus, json : {ErrorBody}] :
        /\ replies' = Append(replies, answer)
        /\ IF raises_for_status(answer)
           THEN /\ Finish(Raise("ClientResponseError"))
                /\ UNCHANGED requests
           ELSE LET nonce == answer.json.nonce
                IN /\ requests' = Append(requests,
                        [method |-> "POST", path |-> RegisterPath,
                         data |-> [nonce |-> nonce, username |-> c_args.username,
                                   displayname |-> c_args.displayname,
                                   password |-> c_args.password, admin |-> FALSE,
                                   mac |-> register_mac(c_args.shared_secret, nonce,
                                                        c_args.username, c_args.password)]])
                   /\ c_pc' = "registration"
                   /\ UNCHANGED outcome
    /\ UNCHANGED <<rooms, c_op, c_args, h_current, h_rooms>>
    /\ UNCHANGED <<webVars, syncVars>>

RegisterPost ==
    /\ c_op = "register_with_shared_secret" /\ c_pc = "registration"
    /\ \E answer \in [status : OkStatus, json : {[user_id |-> "@loki:server"]}]
                    \cup [status : ErrorStatus, json : {ErrorBody}] :
        /\ replies' = Append(replies, answer)
        /\ IF raises_for_status(answer)
           THEN Finish(Raise("ClientResponseError"))
           ELSE Finish(Return(None))
    /\ UNCHANGED <<rooms, c_op, c_args, requests, h_current, h_rooms>>
    /\ UNCHANGED <<webVars, syncVars>>

\* ---- login_with_shared_secret

LoginStart ==
    /\ Idle
    /\ c_op' = "login_with_shared_secret"
    /\ c_args' = [NoArgs EXCEPT !.shared_secret = "secret"]
    /\ requests' = <<[method |-> "POST", path |-> "login",
                      data |-> [type |-> "com.devture.shared_secret_auth",
                                user |-> Loki,
                                token |-> <<"hmac-sha512", "secret", Loki>>]]>>
    /\ c_pc' = "login_raw"
    /\ UNCHANGED <<rooms, replies, h_current, h_rooms, outcome>>
    /\ UNCHANGED <<webVars, syncVars>>

\* raise response, for a LoginError: the response is no exception, so Python raises
\* TypeError in its place
LoginReply ==
    /\ c_op = "login_with_shared_secret" /\ c_pc = "login_raw"
    /\ \E answer \in [status : OkStatus, json : {[access_token |-> "syt"]}]
                    \cup [status : ErrorStatus, json : {ErrorBody}] :
        LET response == api_call("LoginResponse", answer)
        IN /\ replies' = Append(replies, answer)
           /\ IF response.kind = "raise"
              THEN Finish(response)
              ELSE IF response.value.type = "LoginError"
              THEN Finish(Raise("TypeError"))
              ELSE Finish(Return(None))
    /\ UNCHANGED <<rooms, c_op, c_args, requests, h_current, h_rooms>>
    /\ UNCHANGED <<webVars, syncVars>>

\* ---- a request issued through _send: room_create, called on the client

RoomCreateRequest(user_id) ==
    [method |-> "POST", path |-> "createRoom", data |-> [invite |-> <<user_id>>, is_direct |-> TRUE]]

RoomCreateAnswers ==
    [status : OkStatus, json : [room_id : {"!new:server"}]]
        \cup [status : ErrorStatus, json : {ErrorBody}]

RoomCreateStart ==
    /\ Idle
    /\ \E user_id \in OtherUsers :
        /\ c_args' = [NoArgs EXCEPT !.user_id = user_id]
        /\ requests' = <<RoomCreateRequest(user_id)>>
    /\ c_op' = "room_create"
    /\ c_pc' = "room_create"
    /\ UNCHANGED <<rooms, replies, h_current, h_rooms, outcome>>
    /\ UNCHANGED <<webVars, syncVars>>

RoomCreateReply ==
    /\ c_op = "room_create" /\ c_pc = "room_create"
    /\ \E answer \in RoomCreateAnswers :
        /\ replies' = Append(replies, answer)
        /\ Finish(api_call("RoomCreateResponse", answer))
    /\ UNCHANGED <<rooms, c_op, c_args, requests, h_current, h_rooms>>
    /\ UNCHANGED <<webVars, syncVars>>

\* ---- room_hierarchy

\* str(max_depth)
str_int(n) == CASE n = 0 -> "0" [] n = 1 -> "1" [] n = 2 -> "2" [] OTHER -> "3"

\* str(suggested_only).lower()
str_bool_lower(b) == IF b THEN "true" ELSE "false"

\* the truth value Python gives a string or None
truthy(x) == x # None /\ x # ""

\* dict.get(key): the value, or None when the key is absent
get(dict, key) == IF key \in DOMAIN dict THEN dict[key] ELSE None

\* the query of one page request
hierarchy_query(max_depth, suggested_only, current) ==
    LET query == [max_depth |-> str_int(max_depth),
                  suggested_only |-> str_bool_lower(suggested_only)]
    IN  IF truthy(current) THEN ("from" :> current) @@ query ELSE query

HierarchyRequest(args, current) ==
    [method |-> "GET", path |-> <<"rooms", args.room_id, "hierarchy">>,
     data |-> hierarchy_query(args.max_depth, args.suggested_only, current)]

\* rooms = [*rooms, *result["rooms"]]
hierarchy_drop_earlier(rooms_, result) == result.rooms

hierarchy_extend(rooms_, result) == rooms_ \o result.rooms

PageRooms == {<<>>, <<"!a">>, <<"!b", "!c">>}
PageTokens == {"p1", "p2"}

\* the bodies of a page: next_batch may be absent, empty or a token
HierarchyPages ==
    [rooms : PageRooms] \cup [rooms : PageRooms, next_batch : PageTokens \cup {""}]

HierarchyStart ==
    /\ Idle
    /\ \E max_depth \in {1, 2}, suggested_only \in BOOLEAN :
        LET args == [NoArgs EXCEPT !.room_id = "!space:server", !.max_depth = max_depth,
                                   !.suggested_only = suggested_only]
        IN /\ c_args' = args
           /\ requests' = <<HierarchyRequest(args, None)>>
    /\ c_op' = "room_hierarchy"
    /\ c_pc' = "page"
    /\ h_current' = None
    /\ h_rooms' = <<>>
    /\ UNCHANGED <<rooms, replies, outcome>>
    /\ UNCHANGED <<webVars, syncVars>>

\* one turn of the loop: the answer to the request sent arrives
HierarchyPage ==
    /\ c_op = "room_hierarchy" /\ c_pc = "page"
    /\ \E answer \in [status : OkStatus, json : HierarchyPages]
                    \cup [status : ErrorStatus, json : {ErrorBody}] :
        LET result == answer.json
        IN /\ Len(replies) + 1 >= MaxPages => ~truthy(get(result, "next_batch"))
           /\ replies' = Append(replies, answer)
           /\ IF "rooms" \notin DOMAIN result
              THEN /\ Finish(Raise("KeyError"))
                   /\ UNCHANGED <<requests, h_current, h_rooms>>
              ELSE /\ h_rooms' = hierarchy_extend(h_rooms, result)
                   /\ h_current' = get(result, "next_batch")
                   /\ IF ~truthy(h_current')
                      THEN /\ Finish(Return(h_rooms'))
                           /\ UNCHANGED requests
                      ELSE /\ requests' = Append(requests, HierarchyRequest(c_args, h_current'))
                           /\ UNCHANGED <<outcome, c_pc>>
    /\ UNCHANGED <<rooms, c_op, c_args>>
    /\ UNCHANGED <<webVars, syncVars>>

\* ---- pm_slide

\* a room as pm_slide reads it
RoomShapes ==
    [tags : {{}, {"m.direct"}}, is_group : BOOLEAN,
     users : {{Loki} \cup others : others \in SUBSET OtherUsers},
     invited_users : {{}, {"@a:server"}}]

RoomIdAt == [i \in 1..(MaxRooms + 1) |-> <<"!r", i>>]

RECURSIVE pm_scan_any_size(_, _, _)
pm_scan_any_size(rooms_, i, user_id) ==
    IF i > Len(rooms_) THEN None
    ELSE LET room == rooms_[i]
             is_dm == "m.direct" \in room.tags
             is_group == room.is_group
             contains_user_id == user_id \in room.users \/ user_id \in room.invited_users
         IN  IF (is_dm \/ is_group) /\ contains_user_id
             THEN room.room_id
             ELSE pm_scan_any_size(rooms_, i + 1, user_id)

\* the for loop over self.rooms.values(): the id of the first room that passes the
\* test, or None when the loop ends without returning
RECURSIVE pm_scan(_, _, _)
pm_scan(rooms_, i, user_id) ==
    IF i > Len(rooms_) THEN None
    ELSE LET room == rooms_[i]
             is_dm == "m.direct" \in room.tags
             is_group == room.is_group
             has_two_users == Cardinality(room.users) + Cardinality(room.invited_users) = 2
             contains_user_id == user_id \in room.users \/ user_id \in room.invited_users
         IN  IF (is_dm \/ is_group) /\ has_two_users /\ contains_user_id
             THEN room.room_id
             ELSE pm_scan(rooms_, i + 1, user_id)

InitRooms ==
    \E n \in 0..MaxRooms : \E shape \in [1..n -> RoomShapes] :
        rooms = [i \in 1..n |-> [room_id |-> RoomIdAt[i], tags |-> shape[i].tags,
                                 is_group |-> shape[i].is_group, users |-> shape[i].users,
                                 invited_users |-> shape[i].invited_users]]

PmSlideStart ==
    /\ Idle
    /\ c_op' = "pm_slide"
    /\ \E user_id \in OtherUsers :
        LET found == pm_scan(rooms, 1, user_id)
        IN /\ c_args' = [NoArgs EXCEPT !.user_id = user_id]
           /\ IF found # None
              THEN /\ Finish(Return(found))
                   /\ UNCHANGED requests
              ELSE /\ requests' = <<RoomCreateRequest(user_id)>>
                   /\ c_pc' = "room_create"
                   /\ UNCHANGED outcome
    /\ UNCHANGED <<rooms, replies, h_current, h_rooms>>
    /\ UNCHANGED <<webVars, syncVars>>

PmSlideCreated ==
    /\ c_op = "pm_slide" /\ c_pc = "room_create"
    /\ \E answer \in RoomCreateAnswers :
        LET response == api_call("RoomCreateResponse", answer)
        IN /\ replies' = Append(replies, answer)
           /\ IF response.kind = "raise"
              THEN Finish(response)
              ELSE IF response.value.type = "RoomCreateResponse"
              THEN Finish(Return(response.value.body.room_id))
              ELSE Finish(Raise("Exception"))
    /\ UNCHANGED <<rooms, c_op, c_args, requests, h_current, h_rooms>>
    /\ UNCHANGED <<webVars, syncVars>>


\* ---- dump_state, load_state, sync_forever

\* the most runs of sync_forever on one store path
MaxRuns == 2
\* the most periodic dumps of one run
MaxDumps == 2

NoFile == <<>>
BatchTokens == {"s1", "s2"}

\* json.dump(data, file) for data = {"next_batch": value}: the text, token by token
json_dump(data) ==
    <<"{", <<"string", "next_batch">>, ":",
      IF data.next_batch = None THEN <<"null">> ELSE <<"string", data.next_batch>>, "}">>

\* json.load(file) of such a text
json_load(text) ==
    [next_batch |-> IF text[4] = <<"null">> THEN None ELSE text[4][2]]

\* dump_state(path): the text state.json holds afterwards
dump_state(next_batch_) == json_dump([next_batch |-> next_batch_])

\* load_state(path), within try/except FileNotFoundError: the next_batch afterwards
load_state_skipped(text, next_batch_) == next_batch_

load_state(text, next_batch_) ==
    IF text = NoFile
    THEN next_batch_
    ELSE json_load(text).next_batch

InitSync ==
    /\ store = NoFile
    /\ next_batch = None
    /\ sf_pc = "idle"
    /\ run = 0
    /\ dump_task = [r \in 1..MaxRuns |-> "none"]
    /\ cancelling = [r \in 1..MaxRuns |-> FALSE]
    /\ writes = [r \in 1..MaxRuns |-> 0]
    /\ created = [r \in 1..MaxRuns |-> 0]
    /\ ended = [reason |-> None, next_batch |-> None]

\* sync_forever up to its await: load the state, create the dump task
SyncForeverStart ==
    /\ sf_pc = "idle"
    /\ run < MaxRuns
    /\ run' = run + 1
    /\ next_batch' = load_state(store, next_batch)
    /\ dump_task' = [dump_task EXCEPT ![run'] = "created"]
    /\ created' = [created EXCEPT ![run'] = @ + 1]
    /\ sf_pc' = "syncing"
    /\ UNCHANGED <<store, cancelling, writes, ended>>
    /\ UNCHANGED <<webVars, clientVars>>

\* the underlying sync_forever receives a sync response and moves the cursor
SyncResponse ==
    /\ sf_pc = "syncing"
    /\ \E token \in BatchTokens : next_batch' = token
    /\ UNCHANGED <<store, sf_pc, run, dump_task, cancelling, writes, created, ended>>
    /\ UNCHANGED <<webVars, clientVars>>

\* the finally block: cancel the dump task, then dump the state
SyncForeverEnd ==
    /\ sf_pc = "syncing"
    /\ \E reason \in {"returned", "raised", "cancelled"} :
        ended' = [reason |-> reason, next_batch |-> next_batch]
    /\ cancelling' = [cancelling EXCEPT ![run] = dump_task[run] # "finished"]
    /\ store' = dump_state(next_batch)
    /\ sf_pc' = "done"
    /\ UNCHANGED <<next_batch, run, dump_task, writes, created>>
    /\ UNCHANGED <<webVars, clientVars>>

\* sync_forever is called again on the same store path: by the same client, or by
\* the client of a new process
SyncForeverAgain ==
    /\ sf_pc = "done"
    /\ run < MaxRuns
    /\ sf_pc' = "idle"
    /\ \E fresh \in BOOLEAN : next_batch' = IF fresh THEN None ELSE next_batch
    /\ UNCHANGED <<store, run, dump_task, cancelling, writes, created, ended>>
    /\ UNCHANGED <<webVars, clientVars>>

\* asyncio.sleep(timeout) of the task of run r completes
TimerFires(r) ==
    /\ dump_task[r] = "sleeping"
    /\ ~cancelling[r]
    /\ writes[r] < MaxDumps
    /\ dump_task' = [dump_task EXCEPT ![r] = "woken"]
    /\ UNCHANGED <<store, next_batch, sf_pc, run, cancelling, writes, created, ended>>
    /\ UNCHANGED <<webVars, clientVars>>

\* what one step of the task does: "cancelled" when CancelledError is thrown into it,
\* "sleep" when it runs up to asyncio.sleep, "dump" when it resumes after the sleep
task_step_uncancellable(state, cancel_requested) ==
    IF state = "woken" THEN "dump" ELSE "sleep"

task_step(state, cancel_requested) ==
    IF cancel_requested THEN "cancelled"
    ELSE IF state = "woken" THEN "dump"
    ELSE "sleep"

\* the event loop runs the task of run r until it awaits again or ends
TaskStep(r) ==
    /\ dump_task[r] \in {"created", "woken"} \/ (dump_task[r] = "sleeping" /\ cancelling[r])
    /\ LET step == task_step(dump_task[r], cancelling[r])
       IN  /\ cancelling' = [cancelling EXCEPT ![r] = FALSE]
           /\ IF step = "cancelled"
              THEN /\ dump_task' = [dump_task EXCEPT ![r] = "finished"]
                   /\ UNCHANGED <<store, writes>>
              ELSE IF step = "dump"
              THEN /\ store' = dump_state(next_batch)
                   /\ writes' = [writes EXCEPT ![r] = @ + 1]
                   /\ dump_task' = [dump_task EXCEPT ![r] = "sleeping"]
              ELSE /\ dump_task' = [dump_task EXCEPT ![r] = "sleeping"]
                   /\ UNCHANGED <<store, writes>>
    /\ UNCHANGED <<next_batch, sf_pc, run, created, ended>>
    /\ UNCHANGED <<webVars, clientVars>>

(***************************************************************************)
(* Specifications. Each starts the part it leaves alone at rest.           *)
(***************************************************************************)

NextWeb == Link \/ AuthorizeRefused \/ AuthorizeCallback

InitSpecWeb ==
    /\ InitWeb /\ InitClient /\ rooms = <<>> /\ InitSync

\* the routes as a browser drives them
SpecWeb == InitSpecWeb /\ [][NextWeb]_vars

NextView == Link \/ AuthorizeRefused \/ AuthorizeCallback \/ AuthorizeAnySession

\* the routes as functions of the session: /authorize also for a session that began no flow
SpecView == InitSpecWeb /\ [][NextView]_vars

NextClient ==
    \/ RegisterStart \/ RegisterNonce \/ RegisterPost
    \/ LoginStart \/ LoginReply
    \/ RoomCreateStart \/ RoomCreateReply
    \/ HierarchyStart \/ HierarchyPage

\* the calls that talk to the homeserver, each with every answer it may get
InitSpecClient ==
    /\ WebAtRest /\ InitClient /\ rooms = <<>> /\ InitSync

SpecClient == InitSpecClient /\ [][NextClient]_vars

NextPm == PmSlideStart \/ PmSlideCreated

\* pm_slide, for every set of rooms the client may know
InitSpecPm ==
    /\ WebAtRest /\ InitClient /\ InitRooms /\ InitSync

SpecPm == InitSpecPm /\ [][NextPm]_vars

NextSync ==
    \/ SyncForeverStart \/ SyncResponse \/ SyncForeverEnd \/ SyncForeverAgain
    \/ \E r \in 1..MaxRuns : TimerFires(r) \/ TaskStep(r)

\* sync_forever and its dump task on one event loop
SpecSync == InitSpecClient /\ [][NextSync]_vars

Next == NextView \/ NextClient \/ NextPm \/ NextSync

Init ==
    /\ InitWeb /\ InitClient /\ InitRooms /\ InitSync

Spec == Init /\ [][Next]_vars

(***************************************************************************)
(* Properties of the web routes.                                           *)
(***************************************************************************)

\* <non-empty local part>@studenti.unimore.it, with nothing after the domain
InStudentDomain(email) ==
    /\ Len(email) > Len(EmailPattern)
    /\ SubSeq(email, Len(email) - Len(EmailPattern) + 1, Len(email)) = EmailPattern

\* the request just served is an /authorize whose OAuth exchange succeeded
AuthorizeOk == last'.op = "authorize" /\ last'.oauth = "ok" /\ last' # last

\* ... with a verified email of the student domain
AuthorizeVerified == AuthorizeOk /\ last'.verified /\ InStudentDomain(last'.email)

\* C1: when a /matrix/T/link answered for an existing MatrixUser is followed in the
\* session by an /authorize whose Google verification succeeds with a verified
\* student email, the MatrixUser whose token is T has that email as account_email
\* and every other MatrixUser row is as it was.
C1_LinkThenAuthorize ==
    [][(last.op = "link" /\ last.status = 302 /\ AuthorizeVerified) =>
        \E u \in DOMAIN matrix_users :
            /\ matrix_users[u].token = last.token
            /\ DOMAIN matrix_users' = DOMAIN matrix_users
            /\ matrix_users'[u].account_email = last'.email
            /\ \A v \in DOMAIN matrix_users \ {u} : matrix_users'[v] = matrix_users[v]]_vars

\* a flow begun by /matrix/t2/link was authorized for a student email, @u2 is linked
\* to it and @u1 is still unlinked
C1_Witness ==
    /\ last.op = "authorize" /\ last.status = 302 /\ last.state # None
    /\ last.token = "t2" /\ last.verified /\ InStudentDomain(last.email)
    /\ DOMAIN matrix_users = UserIds
    /\ matrix_users["@u2"].account_email = last.email
    /\ matrix_users["@u1"].account_email = NULL

AuthorizeFails ==
    /\ last'.op = "authorize" /\ last' # last
    /\ \/ last'.oauth \in {"BadRequestKeyError", "OAuthError"}
       \/ ~last'.verified
       \/ ~InStudentDomain(last'.email)
       \/ (session.matrix_token # None /\
                \A u \in DOMAIN matrix_users : matrix_users[u].token # session.matrix_token)

\* C3: an /authorize that does not succeed changes no table; missing parameters and
\* a failed exchange answer with the error page, an unverified email or one outside
\* the student domain with the error page and status 403.
C3_FailureChangesNothing ==
    [][AuthorizeFails =>
        /\ accounts' = accounts
        /\ matrix_users' = matrix_users
        /\ last'.oauth \in {"BadRequestKeyError", "OAuthError"} => last'.page = "error.html"
        /\ (AuthorizeOk /\ (~last'.verified \/ ~InStudentDomain(last'.email))) =>
                (last'.page = "error.html" /\ last'.status = 403)]_vars

\* C9: every Account row has an email of the form <local>@studenti.unimore.it with
\* nothing after the domain, and so has the Account of every linked MatrixUser.
C9_OnlyStudentAccounts ==
    /\ \A e \in DOMAIN accounts : InStudentDomain(e)
    /\ \A u \in DOMAIN matrix_users :
            matrix_users[u].account_email # NULL => InStudentDomain(matrix_users[u].account_email)

\* C10: a successful /authorize of the flow begun by /matrix/T/link changes the link
\* of no MatrixUser but the one whose token is T, and no completed link is changed
\* to another Account.
C10_OnlyTheFlowsUser ==
    [][(AuthorizeOk /\ last'.state # None) =>
        \A u \in DOMAIN matrix_users :
            matrix_users'[u].account_email # matrix_users[u].account_email =>
                /\ matrix_users[u].token = oauth_states[last'.state]
                /\ matrix_users[u].account_email = NULL]_vars

(***************************************************************************)
(* Properties of ExtendedClient.                                           *)
(***************************************************************************)

\* the homeserver answered a request of the call with a non-success response
ErrorAnswered == \E i \in 1..Len(replies) : replies[i].status >= 400

\* C4: a call of ExtendedClient whose request the homeserver answers with a
\* non-success response ends by raising; it never returns.
C4_ErrorAnswerRaises ==
    (c_pc = "done" /\ ErrorAnswered) => outcome.kind = "raise"

\* the test of pm_slide: tagged m.direct or a group, two members counting
\* room.users plus room.invited_users, user_id among them
IsPmRoom(room, user_id) ==
    /\ "m.direct" \in room.tags \/ room.is_group
    /\ Cardinality(room.users) + Cardinality(room.invited_users) = 2
    /\ user_id \in room.users \cup room.invited_users

PmRooms(user_id) == {i \in 1..Len(rooms) : IsPmRoom(rooms[i], user_id)}

RECURSIVE RoomsOfPages(_)
RoomsOfPages(pages) ==
    IF pages = <<>> THEN <<>>
    ELSE RoomsOfPages(SubSeq(pages, 1, Len(pages) - 1)) \o pages[Len(pages)].json.rooms

\* the page carries a next_batch that is not empty
HasNext(reply) == "next_batch" \in DOMAIN reply.json /\ reply.json.next_batch # ""

\* C6: room_hierarchy returns the rooms of all pages in request order; the first
\* request has no from, each later one has from = the next_batch just received, all
\* carry the same max_depth and suggested_only, and the loop ends at the first page
\* whose next_batch is absent or empty.
C6_HierarchyPages ==
    (c_op = "room_hierarchy" /\ ~ErrorAnswered) =>
        /\ "from" \notin DOMAIN requests[1].data
        /\ \A k \in 1..Len(requests) :
            /\ requests[k].data.max_depth = (IF c_args.max_depth = 1 THEN "1" ELSE "2")
            /\ requests[k].data.suggested_only = (IF c_args.suggested_only THEN "true" ELSE "false")
            /\ k > 1 => /\ "from" \in DOMAIN requests[k].data
                        /\ HasNext(replies[k - 1])
                        /\ requests[k].data["from"] = replies[k - 1].json.next_batch
        /\ \A k \in 1..(Len(replies) - 1) : HasNext(replies[k])
        /\ c_pc = "page" => /\ Len(requests) = Len(replies) + 1
                            /\ outcome.kind = "none"
                            /\ \A k \in 1..Len(replies) : HasNext(replies[k])
        /\ c_pc = "done" => /\ Len(requests) = Len(replies)
                            /\ ~HasNext(replies[Len(replies)])
                            /\ outcome.kind = "return"
                            /\ outcome.value = RoomsOfPages(replies)

\* three pages were fetched and their rooms returned in order
C6_Witness ==
    /\ c_op = "room_hierarchy" /\ c_pc = "done" /\ outcome.kind = "return"
    /\ Len(replies) = 3
    /\ outcome.value = <<"!a", "!b", "!c", "!a">>

\* run r of sync_forever has ended
Ended(r) == r < run \/ (r = run /\ sf_pc # "syncing")

\* C7: when sync_forever has ended, state.json holds the next_batch the client had
\* at that moment; a later sync_forever sets next_batch to that stored value before
\* it syncs, and one that finds no state.json leaves next_batch as it was.
C7_CursorSurvives ==
    /\ [](sf_pc = "done" =>
            /\ store # NoFile
            /\ json_load(store).next_batch = ended.next_batch
            /\ next_batch = ended.next_batch)
    /\ [][(sf_pc = "idle" /\ sf_pc' = "syncing") =>
            IF store = NoFile
            THEN next_batch' = next_batch
            ELSE next_batch' = ended.next_batch]_vars

\* a run ended by cancellation left a cursor, and the next run of a fresh client
\* has loaded it
C7_Witness ==
    /\ run = 2 /\ sf_pc = "syncing" /\ dump_task[2] = "created"
    /\ ended.reason = "cancelled" /\ ended.next_batch = "s2"
    /\ next_batch = "s2"

\* C8: each run of sync_forever has exactly one dump task; once the run has ended
\* (the task cancelled, the final dump made) its task writes no more, so state.json
\* keeps the value written at shutdown.
C8_NoLateWrite ==
    /\ [](\A r \in 1..MaxRuns : created[r] = IF r <= run THEN 1 ELSE 0)
    /\ [][\A r \in 1..MaxRuns : Ended(r) => writes'[r] = writes[r]]_vars
    /\ [][(sf_pc = "done" /\ sf_pc' = "done") => store' = store]_vars
    /\ [](sf_pc = "done" => store = dump_state(ended.next_batch))

\* the task of the run dumped periodically, was cancelled at shutdown and ended
C8_Witness ==
    /\ sf_pc = "done" /\ run >= 1
    /\ writes[run] >= 1
    /\ dump_task[run] = "finished"
    /\ store = dump_state(ended.next_batch)
====
